---- MODULE Spec2Model ----
(***************************************************************************)
(* Model of monday/query_joins.py: the query builders of the monday.com    *)
(* client.  Every builder is a pure function from Python argument values   *)
(* to a query document.  A document is modelled as the sequence of its     *)
(* lexical tokens (whitespace dropped; the punctuation ( ) { } [ ] : , is  *)
(* one token each; a double-quoted literal is one token including its      *)
(* quotes).  The state machine performs one builder call per step and      *)
(* records the call and its outcome.                                       *)
(*                                                                         *)
(*   table_updates   the entries of the module-level dict                  *)
(*                   COLUMN_VALUES_SPECIFIC set or deleted since the       *)
(*                   module was loaded (the dict is the loaded literal     *)
(*                   with these updates applied)                           *)
(*   heap            the list and dict objects the caller passed to the    *)
(*                   call in progress, as the caller sees them after it    *)
(*   call, result    the call in progress and its outcome                  *)
(***************************************************************************)
EXTENDS Integers, Sequences, FiniteSets, TLC

VARIABLES table_updates, heap, call, result

vars == <<table_updates, heap, call, result>>

(***************************************************************************)
(* Bounds of the model.                                                    *)
(***************************************************************************)
\* integer arguments (ids, limits, pages) range over 0..MaxId
MaxId == 1
\* longest requested sequence of column types in get_item_by_id_query
MaxTags == 2

(***************************************************************************)
(* Python values.  Every value is a record of one shape:                   *)
(*   t     type tag: none, int, str, bool, enum, list, dict                *)
(*   n     the integer (int) or 1/0 (bool)                                 *)
(*   s     the text (str) or the underlying value (enum)                   *)
(*   c, m  class and member name (enum)                                    *)
(*   k     the key under which the value sits in a dict ("" elsewhere)     *)
(*   items the elements (list) or the keyed entries (dict)                 *)
(***************************************************************************)
PyNone == [t |-> "none", n |-> 0, s |-> "", c |-> "", m |-> "", k |-> "", items |-> <<>>]

PyInt(i) == [PyNone EXCEPT !.t = "int", !.n = i]

PyString(x) == [PyNone EXCEPT !.t = "str", !.s = x]

PyTrue == [PyNone EXCEPT !.t = "bool", !.n = 1]

PyFalse == [PyNone EXCEPT !.t = "bool", !.n = 0]

PyEnum(cls, member, value) == [PyNone EXCEPT !.t = "enum", !.c = cls, !.m = member, !.s = value]

PyList(xs) == [PyNone EXCEPT !.t = "list", !.items = xs]

PyDict(entries) == [PyNone EXCEPT !.t = "dict", !.items = entries]

Entry(key, v) == [v EXCEPT !.k = key]

IsNone(v) == v.t = "none"

IsEnum(v) == v.t = "enum"

\* Python truthiness, as used by `not x`, `x or y` and `if x`
PyTruthy(v) ==
    CASE v.t = "none" -> FALSE
      [] v.t = "int"  -> v.n # 0
      [] v.t = "bool" -> v.n = 1
      [] v.t = "str"  -> v.s # ""
      [] v.t = "enum" -> TRUE
      [] OTHER        -> Len(v.items) > 0

\* x or y
PyOr(x, y) == IF PyTruthy(x) THEN x ELSE y

(***************************************************************************)
(* Token helpers.                                                          *)
(***************************************************************************)
\* a piece of text as tokens: the empty text contributes no token
Tok(x) == IF x = "" THEN <<>> ELSE <<x>>

RECURSIVE Concat(_)
Concat(seqs) == IF seqs = <<>> THEN <<>> ELSE Head(seqs) \o Concat(Tail(seqs))

\* ', '.join(parts)
RECURSIVE JoinComma(_)
JoinComma(parts) ==
    IF parts = <<>> THEN <<>>
    ELSE IF Len(parts) = 1 THEN parts[1]
    ELSE parts[1] \o <<",">> \o JoinComma(Tail(parts))

(***************************************************************************)
(* str(), repr() and the % operator of Python on the values above.         *)
(***************************************************************************)
\* str(v) of a scalar
PyStr(v) ==
    CASE v.t = "none" -> "None"
      [] v.t = "int"  -> ToString(v.n)
      [] v.t = "bool" -> IF v.n = 1 THEN "True" ELSE "False"
      [] v.t = "str"  -> v.s
      [] v.t = "enum" -> v.c \o "." \o v.m
      [] OTHER        -> "?"

\* str(v).lower() of a scalar
PyStrLower(v) ==
    CASE v.t = "none" -> "none"
      [] v.t = "bool" -> IF v.n = 1 THEN "true" ELSE "false"
      [] v.t = "enum" -> "enum"
      [] OTHER        -> PyStr(v)

RECURSIVE PyRepr(_)
PyRepr(v) ==
    CASE v.t = "str"  -> <<"'" \o v.s \o "'">>
      [] v.t = "enum" -> <<"<" \o v.c \o "." \o v.m \o ": '" \o v.s \o "'>">>
      [] v.t = "list" ->
            <<"[">> \o JoinComma([i \in 1..Len(v.items) |-> PyRepr(v.items[i])]) \o <<"]">>
      [] v.t = "dict" ->
            <<"{">> \o JoinComma([i \in 1..Len(v.items) |->
                          <<"'" \o v.items[i].k \o "'", ":">> \o PyRepr(v.items[i])]) \o <<"}">>
      [] OTHER        -> <<PyStr(v)>>

\* '%s' % v : the tokens a bare %s placeholder expands to
PyFormat(v) == IF v.t \in {"list", "dict"} THEN PyRepr(v) ELSE Tok(PyStr(v))

\* '"%s"' % v : a %s placeholder between double quotes (scalars only)
PyQuoted(v) == <<"\"" \o PyStr(v) \o "\"">>

(***************************************************************************)
(* json.dumps                                                              *)
(***************************************************************************)
RECURSIVE JsonSerializable(_)
JsonSerializable(v) ==
    /\ v.t # "enum"
    /\ \A i \in 1..Len(v.items) : JsonSerializable(v.items[i])

RECURSIVE JsonDumps(_)
JsonDumps(v) ==
    CASE v.t = "none" -> <<"null">>
      [] v.t = "bool" -> IF v.n = 1 THEN <<"true">> ELSE <<"false">>
      [] v.t = "int"  -> <<ToString(v.n)>>
      [] v.t = "str"  -> <<"\"" \o v.s \o "\"">>
      [] v.t = "list" ->
            <<"[">> \o JoinComma([i \in 1..Len(v.items) |-> JsonDumps(v.items[i])]) \o <<"]">>
      [] v.t = "dict" ->
            <<"{">> \o JoinComma([i \in 1..Len(v.items) |->
                          <<"\"" \o v.items[i].k \o "\"", ":">> \o JsonDumps(v.items[i])]) \o <<"}">>
      [] OTHER        -> <<"?">>

(***************************************************************************)
(* Outcomes of a call.                                                     *)
(***************************************************************************)
Returns(toks) == [kind |-> "str", toks |-> toks]

Raises == [kind |-> "raise", toks |-> <<>>]

NoResult == [kind |-> "none", toks |-> <<>>]

(***************************************************************************)
(* monday.resources.types                                                  *)
(***************************************************************************)
BoardKind == {PyEnum("BoardKind", "PUBLIC", "public"), PyEnum("BoardKind", "PRIVATE", "private"),
              PyEnum("BoardKind", "SHARE", "share")}

BoardState == {PyEnum("BoardState", "ALL", "all"), PyEnum("BoardState", "ACTIVE", "active"),
               PyEnum("BoardState", "ARCHIVED", "archived"),
               PyEnum("BoardState", "DELETED", "deleted")}

BoardsOrderBy == {PyEnum("BoardsOrderBy", "CREATED_AT", "created_at"),
                  PyEnum("BoardsOrderBy", "USED_AT", "used_at")}

DuplicateType ==
    {PyEnum("DuplicateType", "WITH_STRUCTURE", "duplicate_board_with_structure"),
     PyEnum("DuplicateType", "WITH_PULSES", "duplicate_board_with_pulses"),
     PyEnum("DuplicateType", "WITH_PULSES_AND_UPDATES", "duplicate_board_with_pulses_and_updates")}

WorkspaceKind == {PyEnum("WorkspaceKind", "OPEN", "open"),
                  PyEnum("WorkspaceKind", "CLOSED", "closed")}

\* member name -> underlying value of the ColumnType enumeration
ColumnTypeValue ==
    ("BUTTON" :> "button") @@ ("CHECKBOX" :> "checkbox") @@ ("COLOR_PICKER" :> "color_picker")
    @@ ("CONNECT_BOARDS" :> "connect_boards") @@ ("COUNTRY" :> "country")
    @@ ("CREATION_LOG" :> "creation_log") @@ ("DATE" :> "date")
    @@ ("DEPENDENCY" :> "dependency") @@ ("DROPDOWN" :> "dropdown") @@ ("EMAIL" :> "email")
    @@ ("FILE" :> "file") @@ ("FORMULA" :> "formula") @@ ("HOUR" :> "hour")
    @@ ("ITEM_ID" :> "item_id") @@ ("LAST_UPDATED" :> "last_updated") @@ ("LINK" :> "link")
    @@ ("LOCATION" :> "location") @@ ("LONG_TEXT" :> "long_text") @@ ("MIRROR" :> "mirror")
    @@ ("MONDAY_DOC" :> "monday_doc") @@ ("NUMBERS" :> "numbers") @@ ("PEOPLE" :> "people")
    @@ ("PHONE" :> "phone") @@ ("PROGRESS" :> "progress") @@ ("RATING" :> "rating")
    @@ ("STATUS" :> "status") @@ ("TAGS" :> "tags") @@ ("TEAM" :> "team") @@ ("TEXT" :> "text")
    @@ ("TIMELINE" :> "timeline") @@ ("TIME_TRACKING" :> "time_tracking") @@ ("VOTE" :> "vote")
    @@ ("WEEK" :> "week") @@ ("WORLD_CLOCK" :> "world_clock")

ColumnType == {PyEnum("ColumnType", mem, ColumnTypeValue[mem]) : mem \in DOMAIN ColumnTypeValue}

(***************************************************************************)
(* The table of type-specific column_values fragments, keyed by the member  *)
(* name of the ColumnType.                                                  *)
(***************************************************************************)
COLUMN_VALUES_SPECIFIC ==
    ("BUTTON" :> <<"...", "on", "ButtonValue", "{", "color", "label", "}">>)
    @@ ("CHECKBOX" :> <<"...", "on", "CheckboxValue", "{", "checked", "updated_at", "}">>)
    @@ ("COLOR_PICKER" :> <<"...", "on", "ColorPickerValue", "{", "color", "updated_at", "}">>)
    @@ ("CONNECT_BOARDS" :> <<"...", "on", "BoardRelationValue", "{", "display_value",
         "updated_at", "linked_item_ids", "linked_items", "{", "name", "}", "}">>)
    @@ ("COUNTRY" :> <<"...", "on", "CountryValue", "{", "country", "{", "name", "code", "}",
         "updated_at", "}">>)
    @@ ("CREATION_LOG" :> <<"...", "on", "CreationLogValue", "{", "created_at", "creator", "{",
         "name", "id", "email", "}", "}">>)
    @@ ("DATE" :> <<"...", "on", "DateValue", "{", "time", "date", "updated_at", "icon", "}">>)
    @@ ("DEPENDENCY" :> <<"...", "on", "DependencyValue", "{", "linked_item_ids",
         "linked_items", "{", "name", "}", "updated_at", "display_value", "updated_at", "}">>)
    @@ ("DROPDOWN" :> <<"...", "on", "DropdownValue", "{", "values", "{", "id", "label", "}",
         "column", "{", "title", "}", "}">>)
    @@ ("EMAIL" :> <<"...", "on", "EmailValue", "{", "email", "updated_at", "label", "}">>)
    @@ ("FILE" :> <<"...", "on", "FileValue", "{", "files", "}">>)
    @@ ("HOUR" :> <<"...", "on", "HourValue", "{", "minute", "hour", "updated_at", "}">>)
    @@ ("ITEM_ID" :> <<"...", "on", "ItemIdValue", "{", "item_id", "}">>)
    @@ ("LAST_UPDATED" :> <<"...", "on", "LastUpdatedValue", "{", "updated_at", "updater", "{",
         "name", "}", "updater_id", "}">>)
    @@ ("LINK" :> <<"...", "on", "LinkValue", "{", "url", "url_text", "}">>)
    @@ ("LOCATION" :> <<"...", "on", "LocationValue", "{", "address", "city", "city_short",
         "country", "country_short", "lat", "lng", "place_id", "street", "street_number",
         "street_number_short", "street_short", "updated_at", "}">>)
    @@ ("LONG_TEXT" :> <<"...", "on", "LongTextValue", "{", "updated_at", "}">>)
    @@ ("MIRROR" :> <<"...", "on", "MirrorValue", "{", "column", "{", "title", "}",
         "display_value", "mirrored_items", "{", "linked_item", "{", "name", "id", "}",
         "linked_board", "{", "name", "}", "linked_board_id", "mirrored_value", "}", "}">>)
    @@ ("MONDAY_DOC" :> <<"...", "on", "DocValue", "{", "file", "{", "doc", "{", "name",
         "workspace_id", "relative_url", "settings", "}", "creator", "{", "id", "name", "}",
         "created_at", "}", "}">>)
    @@ ("NUMBERS" :> <<"...", "on", "NumbersValue", "{", "number", "symbol", "direction", "}">>)
    @@ ("PEOPLE" :> <<"...", "on", "PeopleValue", "{", "persons_and_teams", "{", "id", "kind",
         "}", "updated_at", "}">>)
    @@ ("PHONE" :> <<"...", "on", "PhoneValue", "{", "country_short_name", "phone",
         "updated_at", "}">>)
    @@ ("RATING" :> <<"...", "on", "RatingValue", "{", "rating", "updated_at", "}">>)
    @@ ("STATUS" :> <<"...", "on", "StatusValue", "{", "index", "is_done", "label",
         "label_style", "{", "border", "color", "}", "update_id", "updated_at", "}">>)
    @@ ("TAGS" :> <<"...", "on", "TagsValue", "{", "tag_ids", "}">>)
    @@ ("TIMELINE" :> <<"...", "on", "TimelineValue", "{", "from", "to", "updated_at",
         "visualization_type", "}">>)
    @@ ("TIME_TRACKING" :> <<"...", "on", "TimeTrackingValue", "{", "duration", "history", "{",
         "created_at", "ended_at", "ended_user_id", "id", "manually_entered_end_date",
         "manually_entered_end_time", "manually_entered_start_date",
         "manually_entered_start_time", "started_at", "started_user_id", "status",
         "updated_at", "}", "running", "started_at", "updated_at", "}">>)
    @@ ("VOTE" :> <<"...", "on", "VoteValue", "{", "vote_count", "voter_ids", "updated_at",
         "}">>)
    @@ ("WEEK" :> <<"...", "on", "WeekValue", "{", "start_date", "end_date", "}">>)
    @@ ("WORLD_CLOCK" :> <<"...", "on", "WorldClockValue", "{", "timezone", "updated_at", "}">>)

(***************************************************************************)
(* monday.utils                                                            *)
(***************************************************************************)
\* the structured value as compact JSON, embedded in the query text
monday_json_stringify(value) == JsonDumps(value)

\* a mapping-valued argument in the braced grammar of the query language
RECURSIVE GqlObject(_)
GqlObject(v) ==
    CASE v.t = "dict" ->
            <<"{">> \o JoinComma([i \in 1..Len(v.items) |->
                          <<v.items[i].k, ":">> \o GqlObject(v.items[i])]) \o <<"}">>
      [] v.t = "enum" -> <<v.s>>
      [] OTHER        -> JsonDumps(v)

\* the pairs of params that are neither excluded nor None, in order
RECURSIVE PresentParams(_, _)
PresentParams(params, excluded_params) ==
    IF params = <<>> THEN <<>>
    ELSE LET p == Head(params)
             rest == PresentParams(Tail(params), excluded_params)
         IN IF p[1] \in excluded_params \/ IsNone(p[2]) THEN rest ELSE <<p>> \o rest

\* params: sequence of <<name, value>> (the caller's locals().items())
gather_params(params, excluded_params) ==
    LET valid == PresentParams(params, excluded_params)
    IN JoinComma([i \in 1..Len(valid) |->
            <<valid[i][1], ":">> \o
            (IF IsEnum(valid[i][2]) THEN <<valid[i][2].s>>
             ELSE IF valid[i][2].t = "dict" THEN GqlObject(valid[i][2])
             ELSE JsonDumps(valid[i][2]))])

\* the dict the name COLUMN_VALUES_SPECIFIC is bound to now: the loaded
\* literal with the updates made since applied
CurrentTable ==
    [key \in {k \in DOMAIN COLUMN_VALUES_SPECIFIC \cup DOMAIN table_updates :
                 k \in DOMAIN table_updates => ~table_updates[k].deleted} |->
        IF key \in DOMAIN table_updates THEN table_updates[key].fragment
        ELSE COLUMN_VALUES_SPECIFIC[key]]

\* specific: None or a list of ColumnType members; fragments: the table
RECURSIVE SelectFragments(_, _)
SelectFragments(tags, fragments) ==
    IF tags = <<>> THEN <<>>
    ELSE (IF Head(tags).m \in DOMAIN fragments THEN fragments[Head(tags).m] ELSE <<>>)
         \o SelectFragments(Tail(tags), fragments)

format_specific_column_values(specific, fragments) ==
    IF IsNone(specific) THEN <<>> ELSE SelectFragments(specific.items, fragments)

(***************************************************************************)
(* ITEM RESOURCE QUERIES                                                   *)
(***************************************************************************)
\* mutate_item_query with the flag formatted as str(flag), the .lower() lost
mutate_item_query_unlowered(board_id, group_id, item_name, column_values, create_labels_if_missing) ==
    LET cv == PyOr(column_values, PyDict(<<>>))
    IN IF ~JsonSerializable(cv) THEN Raises
       ELSE Returns(
            <<"mutation", "{", "create_item", "(", "board_id", ":">> \o PyFormat(board_id)
            \o <<",", "group_id", ":">> \o PyQuoted(group_id)
            \o <<",", "item_name", ":">> \o PyQuoted(item_name)
            \o <<",", "column_values", ":">> \o monday_json_stringify(cv)
            \o <<",", "create_labels_if_missing", ":">> \o PyFormat(create_labels_if_missing)
            \o <<")", "{", "id", "}", "}">>)

mutate_item_query(board_id, group_id, item_name, column_values, create_labels_if_missing) ==
    LET cv == PyOr(column_values, PyDict(<<>>))
    IN IF ~JsonSerializable(cv) THEN Raises
       ELSE Returns(
            <<"mutation", "{", "create_item", "(", "board_id", ":">> \o PyFormat(board_id)
            \o <<",", "group_id", ":">> \o PyQuoted(group_id)
            \o <<",", "item_name", ":">> \o PyQuoted(item_name)
            \o <<",", "column_values", ":">> \o monday_json_stringify(cv)
            \o <<",", "create_labels_if_missing", ":">> \o Tok(PyStrLower(create_labels_if_missing))
            \o <<")", "{", "id", "}", "}">>)

mutate_subitem_query(parent_item_id, subitem_name, column_values, create_labels_if_missing) ==
    LET cv == PyOr(column_values, PyDict(<<>>))
    IN IF ~JsonSerializable(cv) THEN Raises
       ELSE Returns(
            <<"mutation", "{", "create_subitem", "(", "parent_item_id", ":">>
            \o PyFormat(parent_item_id)
            \o <<",", "item_name", ":">> \o PyQuoted(subitem_name)
            \o <<",", "column_values", ":">> \o monday_json_stringify(cv)
            \o <<",", "create_labels_if_missing", ":">> \o Tok(PyStrLower(create_labels_if_missing))
            \o <<")", "{", "id", ",", "name", ",", "column_values", "{", "id", ",", "text", "}",
                 ",", "board", "{", "id", ",", "name", "}", "}", "}">>)

\* the locals() of get_item_query at the call of gather_params
get_item_query_locals(board_id, column_id, value, limit, cursor) ==
    LET columns == IF ~PyTruthy(cursor)
                   THEN PyList(<<PyDict(<<Entry("column_id", PyString(PyStr(column_id))),
                                          Entry("column_values",
                                                PyList(<<PyString(PyStr(value))>>))>>)>>)
                   ELSE PyNone
    IN <<(<<"board_id", board_id>>), (<<"column_id", column_id>>), (<<"value", value>>),
         (<<"limit", limit>>), (<<"cursor", cursor>>), (<<"columns", columns>>)>>

get_item_query_excluded == {"column_id", "value"}

get_item_query(board_id, column_id, value, limit, cursor) ==
    LET raw_params == get_item_query_locals(board_id, column_id, value, limit, cursor)
        items_page_params == gather_params(raw_params, get_item_query_excluded)
    IN Returns(
        <<"query", "{", "items_page_by_column_values", "(">> \o items_page_params
        \o <<")", "{", "cursor", "items", "{", "id", "name", "updates", "{", "id", "body", "}",
             "group", "{", "id", "title", "}", "column_values", "{", "id", "text", "value",
             "}", "}", "}", "}">>)

\* get_item_by_id_query with the two values of the % tuple swapped
get_item_by_id_query_swapped(ids, specific_column_values) ==
    LET column_values == format_specific_column_values(specific_column_values,
                                                       COLUMN_VALUES_SPECIFIC)
    IN Returns(
        <<"query", "{", "items", "(", "ids", ":">> \o column_values
        \o <<")", "{", "id", "name", "group", "{", "id", "title", "}", "column_values", "{",
             "id", "text", "value", "type">> \o PyFormat(ids) \o <<"}", "}", "}">>)

\* reads the dict the module-level name is bound to when the call is made
get_item_by_id_query(ids, specific_column_values) ==
    LET column_values == format_specific_column_values(specific_column_values,
                                                       CurrentTable)
    IN Returns(
        <<"query", "{", "items", "(", "ids", ":">> \o PyFormat(ids)
        \o <<")", "{", "id", "name", "group", "{", "id", "title", "}", "column_values", "{",
             "id", "text", "value", "type">> \o column_values \o <<"}", "}", "}">>)

update_item_query(board_id, item_id, column_id, value, create_labels_if_missing) ==
    IF ~JsonSerializable(value) THEN Raises
    ELSE Returns(
        <<"mutation", "{", "change_column_value", "(", "board_id", ":">> \o PyFormat(board_id)
        \o <<",", "item_id", ":">> \o PyFormat(item_id)
        \o <<",", "column_id", ":">> \o PyQuoted(column_id)
        \o <<",", "value", ":">> \o monday_json_stringify(value)
        \o <<",", "create_labels_if_missing", ":">> \o Tok(PyStrLower(create_labels_if_missing))
        \o <<")", "{", "id", "name", "column_values", "{", "id", "text", "value", "}", "}",
             "}">>)

move_item_to_group_query(item_id, group_id) ==
    Returns(<<"mutation", "{", "move_item_to_group", "(", "item_id", ":">> \o PyFormat(item_id)
            \o <<",", "group_id", ":">> \o PyQuoted(group_id) \o <<")", "{", "id", "}", "}">>)

archive_item_query(item_id) ==
    Returns(<<"mutation", "{", "archive_item", "(", "item_id", ":">> \o PyFormat(item_id)
            \o <<")", "{", "id", "}", "}">>)

delete_item_query(item_id) ==
    Returns(<<"mutation", "{", "delete_item", "(", "item_id", ":">> \o PyFormat(item_id)
            \o <<")", "{", "id", "}", "}">>)

(***************************************************************************)
(* COLUMNS RESOURCE QUERIES                                                *)
(***************************************************************************)
\* create_column as it would be if the template without column_type kept
\* the description
create_column_describing(board_id, column_title, column_type, defaults, description) ==
    LET dflt == PyOr(defaults, PyDict(<<>>))
    IN IF ~PyTruthy(column_type)
       THEN Returns(
            <<"mutation", "{", "create_column", "(", "board_id", ":">> \o PyFormat(board_id)
            \o <<",", "title", ":">> \o PyQuoted(column_title)
            \o <<",", "description", ":">> \o PyQuoted(description)
            \o <<")", "{", "id", "title", "description", "}", "}">>)
       ELSE IF ~IsEnum(column_type) \/ ~JsonSerializable(dflt) THEN Raises
       ELSE Returns(
            <<"mutation", "{", "create_column", "(", "board_id", ":">> \o PyFormat(board_id)
            \o <<",", "title", ":">> \o PyQuoted(column_title)
            \o <<",", "description", ":">> \o PyQuoted(description)
            \o <<",", "column_type", ":">> \o Tok(column_type.s)
            \o <<",", "defaults", ":">> \o monday_json_stringify(dflt)
            \o <<")", "{", "id", "title", "description", "}", "}">>)

create_column(board_id, column_title, column_type, defaults, description) ==
    LET dflt == PyOr(defaults, PyDict(<<>>))
    IN IF ~PyTruthy(column_type)
       THEN Returns(
            <<"mutation", "{", "create_column", "(", "board_id", ":">> \o PyFormat(board_id)
            \o <<",", "title", ":">> \o PyQuoted(column_title)
            \o <<")", "{", "id", "title", "description", "}", "}">>)
       ELSE IF ~IsEnum(column_type) \/ ~JsonSerializable(dflt) THEN Raises
       ELSE Returns(
            <<"mutation", "{", "create_column", "(", "board_id", ":">> \o PyFormat(board_id)
            \o <<",", "title", ":">> \o PyQuoted(column_title)
            \o <<",", "description", ":">> \o PyQuoted(description)
            \o <<",", "column_type", ":">> \o Tok(column_type.s)
            \o <<",", "defaults", ":">> \o monday_json_stringify(dflt)
            \o <<")", "{", "id", "title", "description", "}", "}">>)

get_columns_by_board_query(board_ids) ==
    Returns(<<"query", "{", "boards", "(", "ids", ":">> \o PyFormat(board_ids)
            \o <<")", "{", "id", "name", "groups", "{", "id", "title", "}", "columns", "{",
                 "title", "id", "type", "settings_str", "}", "}", "}">>)

update_multiple_column_values_query(board_id, item_id, column_values, create_labels_if_missing) ==
    IF ~JsonSerializable(column_values) THEN Raises
    ELSE Returns(
        <<"mutation", "{", "change_multiple_column_values", "(", "board_id", ":">>
        \o PyFormat(board_id)
        \o <<",", "item_id", ":">> \o PyFormat(item_id)
        \o <<",", "column_values", ":">> \o monday_json_stringify(column_values)
        \o <<",", "create_labels_if_missing", ":">> \o Tok(PyStrLower(create_labels_if_missing))
        \o <<")", "{", "id", "name", "column_values", "{", "id", "text", "}", "}", "}">>)

add_file_to_column_query(item_id, column_id) ==
    Returns(<<"mutation", "(", "$file", ":", "File!", ")", "{", "add_file_to_column", "(",
              "file", ":", "$file", ",", "item_id", ":">> \o PyFormat(item_id)
            \o <<",", "column_id", ":">> \o PyQuoted(column_id) \o <<")", "{", "id", "}", "}">>)

(***************************************************************************)
(* UPDATE RESOURCE QUERIES                                                 *)
(***************************************************************************)
create_update_query(item_id, update_value) ==
    IF ~JsonSerializable(update_value) THEN Raises
    ELSE Returns(<<"mutation", "{", "create_update", "(", "item_id", ":">> \o PyFormat(item_id)
                 \o <<",", "body", ":">> \o JsonDumps(update_value)
                 \o <<")", "{", "id", "}", "}">>)

delete_update_query(item_id) ==
    Returns(<<"mutation", "{", "delete_update", "(", "id", ":">> \o PyFormat(item_id)
            \o <<")", "{", "id", "}", "}">>)

get_updates_for_item_query(item, limit) ==
    Returns(<<"query", "{", "items", "(", "ids", ":">> \o PyFormat(item)
            \o <<")", "{", "updates", "(", "limit", ":">> \o PyFormat(limit)
            \o <<")", "{", "id", ",", "body", ",", "created_at", ",", "updated_at", ",",
                 "creator", "{", "id", ",", "name", ",", "email", "}", ",", "assets", "{", "id",
                 ",", "name", ",", "url", ",", "file_extension", ",", "file_size", "}", ",",
                 "replies", "{", "id", ",", "body", ",", "creator", "{", "id", ",", "name", ",",
                 "email", "}", ",", "created_at", ",", "updated_at", "}", "}", "}", "}">>)

get_update_query(limit, page) ==
    Returns(<<"query", "{", "updates", "(", "limit", ":">> \o PyFormat(limit)
            \o <<",", "page", ":">> \o PyFormat(PyOr(page, PyInt(1)))
            \o <<")", "{", "id", ",", "body", "}", "}">>)

(***************************************************************************)
(* TAG RESOURCE QUERIES                                                    *)
(***************************************************************************)
get_tags_query(tags) ==
    LET tg == IF IsNone(tags) THEN PyList(<<>>) ELSE tags
    IN Returns(<<"query", "{", "tags", "(", "ids", ":">> \o PyFormat(tg)
               \o <<")", "{", "name", ",", "color", ",", "id", "}", "}">>)

(***************************************************************************)
(* BOARD RESOURCE QUERIES                                                  *)
(***************************************************************************)
\* WrapParams with the emptiness test lost: the parentheses are always written
WrapParamsAlways(items_page_params) == <<"(">> \o items_page_params \o <<")">>

\* wrapped_params = f"({items_page_params})" if items_page_params else ""
WrapParams(items_page_params) ==
    IF items_page_params # <<>> THEN <<"(">> \o items_page_params \o <<")">> ELSE <<>>

get_board_items_query_excluded == {"board_id"}

get_board_items_query(board_id, query_params, limit, cursor) ==
    LET raw_params == <<(<<"board_id", board_id>>), (<<"query_params", query_params>>),
                        (<<"limit", limit>>), (<<"cursor", cursor>>)>>
        items_page_params == gather_params(raw_params, get_board_items_query_excluded)
        wrapped_params == WrapParams(items_page_params)
    IN Returns(
        <<"query", "{", "boards", "(", "ids", ":">> \o PyFormat(board_id)
        \o <<")", "{", "name", "items_page">> \o wrapped_params
        \o <<"{", "cursor", "items", "{", "group", "{", "id", "title", "}", "id", "name",
             "column_values", "{", "id", "text", "type", "value", "}", "}", "}", "}", "}">>)

\* value = v.value if isinstance(v, Enum) else v
EnumValueOrSelf(v) == IF IsEnum(v) THEN PyString(v.s) ELSE v

\* the "%s: %s" % (k, value) entries of the parameters that are not None
RECURSIVE BoardsQueryParams(_)
BoardsQueryParams(parameters) ==
    IF parameters = <<>> THEN <<>>
    ELSE LET k == Head(parameters)[1]
             v == Head(parameters)[2]
             rest == BoardsQueryParams(Tail(parameters))
         IN IF ~IsNone(v) THEN <<(<<k, ":">> \o PyFormat(EnumValueOrSelf(v)))>> \o rest
            ELSE rest

\* JoinedParams with the emptiness test lost: the parentheses are always written
JoinedParamsAlways(query_params) == <<"(">> \o JoinComma(query_params) \o <<")">>

\* joined_params = f"({', '.join(query_params)})" if query_params else ""
JoinedParams(query_params) ==
    IF query_params # <<>> THEN <<"(">> \o JoinComma(query_params) \o <<")">> ELSE <<>>

get_boards_query(limit, page, ids, board_kind, state, order_by) ==
    LET parameters == <<(<<"limit", limit>>), (<<"page", page>>), (<<"ids", ids>>),
                        (<<"board_kind", board_kind>>), (<<"state", state>>),
                        (<<"order_by", order_by>>)>>
        query_params == BoardsQueryParams(parameters)
        joined_params == JoinedParams(query_params)
    IN Returns(
        <<"query", "{", "boards">> \o joined_params
        \o <<"{", "id", "name", "permissions", "tags", "{", "id", "name", "}", "groups", "{",
             "id", "title", "}", "columns", "{", "id", "title", "type", "}", "}", "}">>)

get_boards_by_id_query(board_ids) ==
    Returns(<<"query", "{", "boards", "(", "ids", ":">> \o PyFormat(board_ids)
            \o <<")", "{", "id", "name", "permissions", "tags", "{", "id", "name", "}",
                 "groups", "{", "id", "title", "}", "columns", "{", "id", "title", "type",
                 "settings_str", "}", "}", "}">>)

duplicate_board_optional_params(board_name, folder_id, keep_subscribers, workspace_id) ==
    (IF ~IsNone(board_name) THEN <<",", "board_name", ":">> \o PyQuoted(board_name) ELSE <<>>)
    \o (IF ~IsNone(folder_id) THEN <<",", "folder_id", ":">> \o PyFormat(folder_id) ELSE <<>>)
    \o (IF ~IsNone(keep_subscribers)
        THEN <<",", "keep_subscribers", ":">> \o PyFormat(keep_subscribers) ELSE <<>>)
    \o (IF ~IsNone(workspace_id)
        THEN <<",", "workspace_id", ":">> \o PyFormat(workspace_id) ELSE <<>>)

duplicate_board_query(board_id, duplicate_type, board_name, folder_id, keep_subscribers, workspace_id) ==
    LET optional_params == duplicate_board_optional_params(board_name, folder_id,
                                                           keep_subscribers, workspace_id)
    IN IF ~IsEnum(duplicate_type) THEN Raises
       ELSE Returns(
            <<"mutation", "{", "duplicate_board", "(", "board_id", ":">> \o PyFormat(board_id)
            \o <<",", "duplicate_type", ":">> \o Tok(duplicate_type.s) \o optional_params
            \o <<")", "{", "board", "{", "id", "}", "}", "}">>)

\* workspace_query = f'workspace_id: {workspace_id}' if workspace_id else ''
workspace_query(workspace_id) ==
    IF PyTruthy(workspace_id) THEN <<"workspace_id", ":">> \o PyFormat(workspace_id) ELSE <<>>

create_board_by_workspace_query(board_name, board_kind, workspace_id) ==
    IF ~IsEnum(board_kind) THEN Raises
    ELSE Returns(
        <<"mutation", "{", "create_board", "(", "board_name", ":">> \o PyQuoted(board_name)
        \o <<",", "board_kind", ":">> \o Tok(board_kind.s) \o <<",">>
        \o workspace_query(workspace_id) \o <<")", "{", "id", "}", "}">>)

(***************************************************************************)
(* USER RESOURCE QUERIES                                                   *)
(***************************************************************************)
\* kwargs: sequence of <<name, value>> in the order the caller gave them
get_users_query(kwargs) ==
    LET joined_params ==
            IF kwargs # <<>>
            THEN <<"(">> \o JoinComma([i \in 1..Len(kwargs) |->
                                <<kwargs[i][1], ":">> \o PyFormat(kwargs[i][2])]) \o <<")">>
            ELSE <<>>
    IN Returns(<<"query", "{", "users">> \o joined_params
               \o <<"{", "id", "name", "email", "enabled", "teams", "{", "id", "name", "}",
                    "}", "}">>)

(***************************************************************************)
(* GROUP RESOURCE QUERIES                                                  *)
(***************************************************************************)
get_groups_by_board_query(board_ids) ==
    Returns(<<"query", "{", "boards", "(", "ids", ":">> \o PyFormat(board_ids)
            \o <<")", "{", "groups", "{", "id", "title", "archived", "deleted", "color", "}",
                 "}", "}">>)

get_items_by_group_query_excluded == {"board_id", "group_id"}

get_items_by_group_query(board_id, group_id, limit, cursor) ==
    LET raw_params == <<(<<"board_id", board_id>>), (<<"group_id", group_id>>),
                        (<<"limit", limit>>), (<<"cursor", cursor>>)>>
        items_page_params == gather_params(raw_params, get_items_by_group_query_excluded)
        wrapped_params == WrapParams(items_page_params)
    IN Returns(
        <<"query", "{", "boards", "(", "ids", ":">> \o PyFormat(board_id)
        \o <<")", "{", "groups", "(", "ids", ":">> \o PyQuoted(group_id)
        \o <<")", "{", "id", "title", "items_page">> \o wrapped_params
        \o <<"{", "cursor", "items", "{", "id", "name", "}", "}", "}", "}", "}">>)

create_group_query(board_id, group_name) ==
    Returns(<<"mutation", "{", "create_group", "(", "board_id", ":">> \o PyFormat(board_id)
            \o <<",", "group_name", ":">> \o PyQuoted(group_name) \o <<")", "{", "id", "}", "}">>)

duplicate_group_query(board_id, group_id) ==
    Returns(<<"mutation", "{", "duplicate_group", "(", "board_id", ":">> \o PyFormat(board_id)
            \o <<",", "group_id", ":">> \o PyQuoted(group_id) \o <<")", "{", "id", "}", "}">>)

archive_group_query(board_id, group_id) ==
    Returns(<<"mutation", "{", "archive_group", "(", "board_id", ":">> \o PyFormat(board_id)
            \o <<",", "group_id", ":">> \o PyQuoted(group_id)
            \o <<")", "{", "id", "archived", "}", "}">>)

delete_group_query(board_id, group_id) ==
    Returns(<<"mutation", "{", "delete_group", "(", "board_id", ":">> \o PyFormat(board_id)
            \o <<",", "group_id", ":">> \o PyQuoted(group_id)
            \o <<")", "{", "id", "deleted", "}", "}">>)

get_complexity_query ==
    Returns(<<"query", "{", "complexity", "{", "after", ",", "reset_in_x_seconds", "}", "}">>)

get_workspaces_query ==
    Returns(<<"query", "{", "boards", "{", "workspace", "{", "id", "name", "kind",
              "description", "}", "}", "}">>)

create_workspace_query(name, kind, description) ==
    Returns(<<"mutation", "{", "create_workspace", "(", "name", ":">> \o PyQuoted(name)
            \o <<",", "kind", ":">> \o PyFormat(kind)
            \o <<",", "description", ":">> \o PyQuoted(description)
            \o <<")", "{", "id", "description", "}", "}">>)

add_users_to_workspace_query(workspace_id, user_ids, kind) ==
    Returns(<<"mutation", "{", "add_users_to_workspace", "(", "workspace_id", ":">>
            \o PyFormat(workspace_id) \o <<",", "user_ids", ":">> \o PyFormat(user_ids)
            \o <<",", "kind", ":">> \o PyFormat(kind) \o <<")", "{", "id", "}", "}">>)

delete_users_from_workspace_query(workspace_id, user_ids) ==
    Returns(<<"mutation", "{", "add_users_to_workspace", "(", "workspace_id", ":">>
            \o PyFormat(workspace_id) \o <<",", "user_ids", ":">> \o PyFormat(user_ids)
            \o <<")", "{", "id", "}", "}">>)

add_teams_to_workspace_query(workspace_id, team_ids) ==
    Returns(<<"mutation", "{", "add_teams_to_workspace", "(", "workspace_id", ":">>
            \o PyFormat(workspace_id) \o <<",", "team_ids", ":">> \o PyFormat(team_ids)
            \o <<")", "{", "id", "}", "}">>)

delete_teams_from_workspace_query(workspace_id, team_ids) ==
    Returns(<<"mutation", "{", "delete_teams_from_workspace", "(", "workspace_id", ":">>
            \o PyFormat(workspace_id) \o <<",", "team_ids", ":">> \o PyFormat(team_ids)
            \o <<")", "{", "id", "}", "}">>)

create_notification_query(user_id, target_id, text, target_type) ==
    Returns(<<"mutation", "{", "create_notification", "(", "user_id", ":">>
            \o PyFormat(user_id) \o <<",", "target_id", ":">> \o PyFormat(target_id)
            \o <<",", "text", ":">> \o PyQuoted(text)
            \o <<",", "target_type", ":">> \o PyFormat(target_type)
            \o <<")", "{", "text", "user_id", "target_id", "target_type", "}", "}">>)

(***************************************************************************)
(* ME RESOURCE QUERIES                                                     *)
(***************************************************************************)
get_me_query ==
    Returns(<<"{", "me", "{", "account", "{", "id", "}", ",", "birthday", ",", "country_code",
              ",", "created_at", ",", "join_date", ",", "email", ",", "enabled", ",", "id", ",",
              "is_admin", ",", "is_guest", ",", "is_pending", ",", "is_view_only", ",",
              "location", ",", "mobile_phone", ",", "name", ",", "phone", ",", "photo_original",
              ",", "photo_small", ",", "photo_thumb", ",", "photo_thumb_small", ",",
              "photo_tiny", ",", "teams", "{", "id", ",", "name", "}", ",",
              "time_zone_identifier", ",", "title", ",", "url", ",", "utc_hours_diff", ",", "}",
              "}">>)

(***************************************************************************)
(* The argument values the calls are made with.  Req* sets hold the        *)
(* well-typed values of a required parameter and None (a missing value);   *)
(* Opt* sets hold the values of an optional parameter, None being its      *)
(* absence.                                                                *)
(***************************************************************************)
Ids == {PyInt(i) : i \in 0..MaxId}

OptIds == Ids \cup {PyNone}

ReqIds == Ids \cup {PyNone}

Texts == {PyString(""), PyString("topics"), PyString("Task")}

OptTexts == Texts \cup {PyNone}

ReqTexts == Texts \cup {PyNone}

Flags == {PyTrue, PyFalse}

OptFlags == Flags \cup {PyNone}

ReqFlags == Flags \cup {PyNone}

StatusDone == PyDict(<<Entry("status", PyDict(<<Entry("label", PyString("Done"))>>))>>)

Maps == {PyDict(<<>>), StatusDone,
         PyDict(<<Entry("text", PyString("hi")), Entry("numbers", PyInt(3))>>)}

OptMaps == Maps \cup {PyNone}

IdLists == {PyList(<<>>), PyList(<<PyInt(1)>>), PyList(<<PyInt(1), PyInt(2)>>)}

OptIdLists == IdLists \cup {PyNone}

ReqIdLists == IdLists \cup {PyNone}

ItemIds == {PyInt(1), PyList(<<PyInt(1), PyInt(2)>>), PyNone}

\* None, or a list of at most MaxTags column types
TagLists == {PyNone} \cup {PyList(tags) : tags \in UNION {[1..n -> ColumnType] : n \in 0..MaxTags}}

JsonValues == {PyString("Done"), PyInt(5), StatusDone, PyNone,
               PyEnum("ColumnType", "STATUS", "status")}

ColumnTypeArgs == {PyNone, PyString(""), PyString("status")}
                  \cup {ct \in ColumnType : ct.m \in {"STATUS", "DATE", "TEXT"}}

QueryParams == {PyDict(<<Entry("order_by", PyDict(<<Entry("column_id", PyString("date"))>>))>>),
                PyDict(<<Entry("operator", PyEnum("Operator", "AND", "and"))>>)}

OptQueryParams == QueryParams \cup {PyNone}

OptBoardKind == BoardKind \cup {PyNone}

OptBoardState == BoardState \cup {PyNone}

OptBoardsOrderBy == BoardsOrderBy \cup {PyNone}

DuplicateTypeArgs == DuplicateType \cup {PyNone, PyString("duplicate_board_with_pulses")}

BoardKindArgs == BoardKind \cup {PyNone, PyString("public")}

WorkspaceKindArgs == WorkspaceKind \cup {PyNone, PyString("open")}

TargetTypes == {PyString("Project"), PyString("Post"), PyNone}

\* an optional keyword argument: absent, or present with a value of D
Keyword(name, D) == {<<>>} \cup {<<(<<name, v>>)>> : v \in D}

UsersKwargs == {a \o b \o c : a \in Keyword("kind", {PyString("all"), PyString("guests")}),
                              b \in Keyword("ids", IdLists),
                              c \in Keyword("limit", Ids)}
               \cup {b \o a : a \in Keyword("kind", {PyString("all")}), b \in Keyword("ids", IdLists)}

(***************************************************************************)
(* The state machine: one builder call per step.                           *)
(***************************************************************************)
\* no call is in progress: the previous call's frame is gone
Idle == call.fn = "none"

\* the list and dict objects among the arguments of a call: Python passes
\* them by reference, so the caller sees whatever the builder does to them
Objects(args) ==
    [p \in {q \in DOMAIN args : args[q].t \in {"list", "dict"}} |-> args[p]]

\* the keyword arguments of a **kwargs call, by name
Keywords(kwargs) ==
    [p \in {kwargs[i][1] : i \in DOMAIN kwargs} |->
        kwargs[CHOOSE i \in DOMAIN kwargs : kwargs[i][1] = p][2]]

Init ==
    /\ table_updates = <<>>
    /\ heap = Objects(<<>>)
    /\ call = [fn |-> "none", args |-> <<>>]
    /\ result = NoResult

Call_mutate_item_query ==
    /\ Idle
    /\ \E board_id \in ReqIds, group_id \in ReqTexts, item_name \in ReqTexts,
       column_values \in OptMaps, create_labels_if_missing \in ReqFlags :
        /\ call' = [fn |-> "mutate_item_query",
                    args |-> [board_id |-> board_id, group_id |-> group_id, item_name |-> item_name, column_values |-> column_values, create_labels_if_missing |-> create_labels_if_missing]]
        /\ result' = mutate_item_query(board_id, group_id, item_name, column_values, create_labels_if_missing)
        /\ heap' = Objects(call'.args)
        /\ UNCHANGED table_updates

Call_mutate_subitem_query ==
    /\ Idle
    /\ \E parent_item_id \in ReqIds, subitem_name \in ReqTexts, column_values \in OptMaps,
       create_labels_if_missing \in ReqFlags :
        /\ call' = [fn |-> "mutate_subitem_query",
                    args |-> [parent_item_id |-> parent_item_id, subitem_name |-> subitem_name, column_values |-> column_values, create_labels_if_missing |-> create_labels_if_missing]]
        /\ result' = mutate_subitem_query(parent_item_id, subitem_name, column_values, create_labels_if_missing)
        /\ heap' = Objects(call'.args)
        /\ UNCHANGED table_updates

Call_get_item_query ==
    /\ Idle
    /\ \E board_id \in ReqIds, column_id \in ReqTexts, value \in ReqTexts, limit \in OptIds,
       cursor \in OptTexts :
        /\ call' = [fn |-> "get_item_query",
                    args |-> [board_id |-> board_id, column_id |-> column_id, value |-> value, limit |-> limit, cursor |-> cursor]]
        /\ result' = get_item_query(board_id, column_id, value, limit, cursor)
        /\ heap' = Objects(call'.args)
        /\ UNCHANGED table_updates

\* get_item_by_id_query as it would be if it popped the requested entries
\* out of the module-level table instead of reading them
Call_get_item_by_id_query_popping ==
    /\ Idle
    /\ \E ids \in ItemIds, specific_column_values \in TagLists :
        LET popped == IF IsNone(specific_column_values) THEN {}
                      ELSE {specific_column_values.items[i].m :
                               i \in DOMAIN specific_column_values.items}
        IN /\ call' = [fn |-> "get_item_by_id_query",
                        args |-> [ids |-> ids, specific_column_values |-> specific_column_values]]
           /\ result' = get_item_by_id_query(ids, specific_column_values)
           /\ heap' = Objects(call'.args)
           /\ table_updates' = [k \in DOMAIN table_updates \cup popped |->
                                   IF k \in popped THEN [deleted |-> TRUE, fragment |-> <<>>]
                                   ELSE table_updates[k]]

Call_get_item_by_id_query ==
    /\ Idle
    /\ \E ids \in ItemIds, specific_column_values \in TagLists :
        /\ call' = [fn |-> "get_item_by_id_query",
                    args |-> [ids |-> ids, specific_column_values |-> specific_column_values]]
        /\ result' = get_item_by_id_query(ids, specific_column_values)
        /\ heap' = Objects(call'.args)
        /\ UNCHANGED table_updates

Call_update_item_query ==
    /\ Idle
    /\ \E board_id \in ReqIds, item_id \in ReqIds, column_id \in ReqTexts, value \in JsonValues,
       create_labels_if_missing \in ReqFlags :
        /\ call' = [fn |-> "update_item_query",
                    args |-> [board_id |-> board_id, item_id |-> item_id, column_id |-> column_id, value |-> value, create_labels_if_missing |-> create_labels_if_missing]]
        /\ result' = update_item_query(board_id, item_id, column_id, value, create_labels_if_missing)
        /\ heap' = Objects(call'.args)
        /\ UNCHANGED table_updates

Call_move_item_to_group_query ==
    /\ Idle
    /\ \E item_id \in ReqIds, group_id \in ReqTexts :
        /\ call' = [fn |-> "move_item_to_group_query",
                    args |-> [item_id |-> item_id, group_id |-> group_id]]
        /\ result' = move_item_to_group_query(item_id, group_id)
        /\ heap' = Objects(call'.args)
        /\ UNCHANGED table_updates

Call_archive_item_query ==
    /\ Idle
    /\ \E item_id \in ReqIds :
        /\ call' = [fn |-> "archive_item_query",
                    args |-> [item_id |-> item_id]]
        /\ result' = archive_item_query(item_id)
        /\ heap' = Objects(call'.args)
        /\ UNCHANGED table_updates

Call_delete_item_query ==
    /\ Idle
    /\ \E item_id \in ReqIds :
        /\ call' = [fn |-> "delete_item_query",
                    args |-> [item_id |-> item_id]]
        /\ result' = delete_item_query(item_id)
        /\ heap' = Objects(call'.args)
        /\ UNCHANGED table_updates

Call_create_column ==
    /\ Idle
    /\ \E board_id \in ReqIds, column_title \in ReqTexts, column_type \in ColumnTypeArgs,
       defaults \in OptMaps, description \in Texts :
        /\ call' = [fn |-> "create_column",
                    args |-> [board_id |-> board_id, column_title |-> column_title, column_type |-> column_type, defaults |-> defaults, description |-> description]]
        /\ result' = create_column(board_id, column_title, column_type, defaults, description)
        /\ heap' = Objects(call'.args)
        /\ UNCHANGED table_updates

Call_get_columns_by_board_query ==
    /\ Idle
    /\ \E board_ids \in ReqIdLists :
        /\ call' = [fn |-> "get_columns_by_board_query",
                    args |-> [board_ids |-> board_ids]]
        /\ result' = get_columns_by_board_query(board_ids)
        /\ heap' = Objects(call'.args)
        /\ UNCHANGED table_updates

Call_update_multiple_column_values_query ==
    /\ Idle
    /\ \E board_id \in ReqIds, item_id \in ReqIds, column_values \in OptMaps,
       create_labels_if_missing \in Flags :
        /\ call' = [fn |-> "update_multiple_column_values_query",
                    args |-> [board_id |-> board_id, item_id |-> item_id, column_values |-> column_values, create_labels_if_missing |-> create_labels_if_missing]]
        /\ result' = update_multiple_column_values_query(board_id, item_id, column_values, create_labels_if_missing)
        /\ heap' = Objects(call'.args)
        /\ UNCHANGED table_updates

Call_add_file_to_column_query ==
    /\ Idle
    /\ \E item_id \in ReqIds, column_id \in ReqTexts :
        /\ call' = [fn |-> "add_file_to_column_query",
                    args |-> [item_id |-> item_id, column_id |-> column_id]]
        /\ result' = add_file_to_column_query(item_id, column_id)
        /\ heap' = Objects(call'.args)
        /\ UNCHANGED table_updates

Call_create_update_query ==
    /\ Idle
    /\ \E item_id \in ReqIds, update_value \in ReqTexts :
        /\ call' = [fn |-> "create_update_query",
                    args |-> [item_id |-> item_id, update_value |-> update_value]]
        /\ result' = create_update_query(item_id, update_value)
        /\ heap' = Objects(call'.args)
        /\ UNCHANGED table_updates

Call_delete_update_query ==
    /\ Idle
    /\ \E item_id \in ReqIds :
        /\ call' = [fn |-> "delete_update_query",
                    args |-> [item_id |-> item_id]]
        /\ result' = delete_update_query(item_id)
        /\ heap' = Objects(call'.args)
        /\ UNCHANGED table_updates

Call_get_updates_for_item_query ==
    /\ Idle
    /\ \E item \in ReqIds, limit \in ReqIds :
        /\ call' = [fn |-> "get_updates_for_item_query",
                    args |-> [item |-> item, limit |-> limit]]
        /\ result' = get_updates_for_item_query(item, limit)
        /\ heap' = Objects(call'.args)
        /\ UNCHANGED table_updates

Call_get_update_query ==
    /\ Idle
    /\ \E limit \in ReqIds, page \in OptIds :
        /\ call' = [fn |-> "get_update_query",
                    args |-> [limit |-> limit, page |-> page]]
        /\ result' = get_update_query(limit, page)
        /\ heap' = Objects(call'.args)
        /\ UNCHANGED table_updates

Call_get_tags_query ==
    /\ Idle
    /\ \E tags \in OptIdLists :
        /\ call' = [fn |-> "get_tags_query",
                    args |-> [tags |-> tags]]
        /\ result' = get_tags_query(tags)
        /\ heap' = Objects(call'.args)
        /\ UNCHANGED table_updates

Call_get_board_items_query ==
    /\ Idle
    /\ \E board_id \in ReqIds, query_params \in OptQueryParams, limit \in OptIds,
       cursor \in OptTexts :
        /\ call' = [fn |-> "get_board_items_query",
                    args |-> [board_id |-> board_id, query_params |-> query_params, limit |-> limit, cursor |-> cursor]]
        /\ result' = get_board_items_query(board_id, query_params, limit, cursor)
        /\ heap' = Objects(call'.args)
        /\ UNCHANGED table_updates

Call_get_boards_query ==
    /\ Idle
    /\ \E limit \in OptIds, page \in OptIds, ids \in OptIdLists, board_kind \in OptBoardKind,
       state \in OptBoardState, order_by \in OptBoardsOrderBy :
        /\ call' = [fn |-> "get_boards_query",
                    args |-> [limit |-> limit, page |-> page, ids |-> ids, board_kind |-> board_kind, state |-> state, order_by |-> order_by]]
        /\ result' = get_boards_query(limit, page, ids, board_kind, state, order_by)
        /\ heap' = Objects(call'.args)
        /\ UNCHANGED table_updates

Call_get_boards_by_id_query ==
    /\ Idle
    /\ \E board_ids \in ReqIdLists :
        /\ call' = [fn |-> "get_boards_by_id_query",
                    args |-> [board_ids |-> board_ids]]
        /\ result' = get_boards_by_id_query(board_ids)
        /\ heap' = Objects(call'.args)
        /\ UNCHANGED table_updates

Call_duplicate_board_query ==
    /\ Idle
    /\ \E board_id \in ReqIds, duplicate_type \in DuplicateTypeArgs, board_name \in OptTexts,
       folder_id \in OptIds, keep_subscribers \in OptFlags, workspace_id \in OptIds :
        /\ call' = [fn |-> "duplicate_board_query",
                    args |-> [board_id |-> board_id, duplicate_type |-> duplicate_type, board_name |-> board_name, folder_id |-> folder_id, keep_subscribers |-> keep_subscribers, workspace_id |-> workspace_id]]
        /\ result' = duplicate_board_query(board_id, duplicate_type, board_name, folder_id, keep_subscribers, workspace_id)
        /\ heap' = Objects(call'.args)
        /\ UNCHANGED table_updates

Call_create_board_by_workspace_query ==
    /\ Idle
    /\ \E board_name \in ReqTexts, board_kind \in BoardKindArgs, workspace_id \in OptIds :
        /\ call' = [fn |-> "create_board_by_workspace_query",
                    args |-> [board_name |-> board_name, board_kind |-> board_kind, workspace_id |-> workspace_id]]
        /\ result' = create_board_by_workspace_query(board_name, board_kind, workspace_id)
        /\ heap' = Objects(call'.args)
        /\ UNCHANGED table_updates

Call_get_users_query ==
    /\ Idle
    /\ \E kwargs \in UsersKwargs :
        /\ call' = [fn |-> "get_users_query", args |-> [kwargs |-> kwargs]]
        /\ result' = get_users_query(kwargs)
        /\ heap' = Objects(Keywords(kwargs))
        /\ UNCHANGED table_updates

Call_get_groups_by_board_query ==
    /\ Idle
    /\ \E board_ids \in ReqIdLists :
        /\ call' = [fn |-> "get_groups_by_board_query",
                    args |-> [board_ids |-> board_ids]]
        /\ result' = get_groups_by_board_query(board_ids)
        /\ heap' = Objects(call'.args)
        /\ UNCHANGED table_updates

Call_get_items_by_group_query ==
    /\ Idle
    /\ \E board_id \in ReqIds, group_id \in ReqTexts, limit \in OptIds, cursor \in OptTexts :
        /\ call' = [fn |-> "get_items_by_group_query",
                    args |-> [board_id |-> board_id, group_id |-> group_id, limit |-> limit, cursor |-> cursor]]
        /\ result' = get_items_by_group_query(board_id, group_id, limit, cursor)
        /\ heap' = Objects(call'.args)
        /\ UNCHANGED table_updates

Call_create_group_query ==
    /\ Idle
    /\ \E board_id \in ReqIds, group_name \in ReqTexts :
        /\ call' = [fn |-> "create_group_query",
                    args |-> [board_id |-> board_id, group_name |-> group_name]]
        /\ result' = create_group_query(board_id, group_name)
        /\ heap' = Objects(call'.args)
        /\ UNCHANGED table_updates

Call_duplicate_group_query ==
    /\ Idle
    /\ \E board_id \in ReqIds, group_id \in ReqTexts :
        /\ call' = [fn |-> "duplicate_group_query",
                    args |-> [board_id |-> board_id, group_id |-> group_id]]
        /\ result' = duplicate_group_query(board_id, group_id)
        /\ heap' = Objects(call'.args)
        /\ UNCHANGED table_updates

Call_archive_group_query ==
    /\ Idle
    /\ \E board_id \in ReqIds, group_id \in ReqTexts :
        /\ call' = [fn |-> "archive_group_query",
                    args |-> [board_id |-> board_id, group_id |-> group_id]]
        /\ result' = archive_group_query(board_id, group_id)
        /\ heap' = Objects(call'.args)
        /\ UNCHANGED table_updates

Call_delete_group_query ==
    /\ Idle
    /\ \E board_id \in ReqIds, group_id \in ReqTexts :
        /\ call' = [fn |-> "delete_group_query",
                    args |-> [board_id |-> board_id, group_id |-> group_id]]
        /\ result' = delete_group_query(board_id, group_id)
        /\ heap' = Objects(call'.args)
        /\ UNCHANGED table_updates

Call_get_complexity_query ==
    /\ Idle
    /\ call' = [fn |-> "get_complexity_query", args |-> <<>>]
    /\ result' = get_complexity_query
    /\ heap' = Objects(call'.args)
    /\ UNCHANGED table_updates

Call_get_workspaces_query ==
    /\ Idle
    /\ call' = [fn |-> "get_workspaces_query", args |-> <<>>]
    /\ result' = get_workspaces_query
    /\ heap' = Objects(call'.args)
    /\ UNCHANGED table_updates

Call_create_workspace_query ==
    /\ Idle
    /\ \E name \in ReqTexts, kind \in WorkspaceKindArgs, description \in Texts :
        /\ call' = [fn |-> "create_workspace_query",
                    args |-> [name |-> name, kind |-> kind, description |-> description]]
        /\ result' = create_workspace_query(name, kind, description)
        /\ heap' = Objects(call'.args)
        /\ UNCHANGED table_updates

Call_add_users_to_workspace_query ==
    /\ Idle
    /\ \E workspace_id \in ReqIds, user_ids \in ReqIdLists, kind \in WorkspaceKindArgs :
        /\ call' = [fn |-> "add_users_to_workspace_query",
                    args |-> [workspace_id |-> workspace_id, user_ids |-> user_ids, kind |-> kind]]
        /\ result' = add_users_to_workspace_query(workspace_id, user_ids, kind)
        /\ heap' = Objects(call'.args)
        /\ UNCHANGED table_updates

Call_delete_users_from_workspace_query ==
    /\ Idle
    /\ \E workspace_id \in ReqIds, user_ids \in ReqIdLists :
        /\ call' = [fn |-> "delete_users_from_workspace_query",
                    args |-> [workspace_id |-> workspace_id, user_ids |-> user_ids]]
        /\ result' = delete_users_from_workspace_query(workspace_id, user_ids)
        /\ heap' = Objects(call'.args)
        /\ UNCHANGED table_updates

Call_add_teams_to_workspace_query ==
    /\ Idle
    /\ \E workspace_id \in ReqIds, team_ids \in ReqIdLists :
        /\ call' = [fn |-> "add_teams_to_workspace_query",
                    args |-> [workspace_id |-> workspace_id, team_ids |-> team_ids]]
        /\ result' = add_teams_to_workspace_query(workspace_id, team_ids)
        /\ heap' = Objects(call'.args)
        /\ UNCHANGED table_updates

Call_delete_teams_from_workspace_query ==
    /\ Idle
    /\ \E workspace_id \in ReqIds, team_ids \in ReqIdLists :
        /\ call' = [fn |-> "delete_teams_from_workspace_query",
                    args |-> [workspace_id |-> workspace_id, team_ids |-> team_ids]]
        /\ result' = delete_teams_from_workspace_query(workspace_id, team_ids)
        /\ heap' = Objects(call'.args)
        /\ UNCHANGED table_updates

Call_create_notification_query ==
    /\ Idle
    /\ \E user_id \in ReqIds, target_id \in ReqIds, text \in ReqTexts,
       target_type \in TargetTypes :
        /\ call' = [fn |-> "create_notification_query",
                    args |-> [user_id |-> user_id, target_id |-> target_id, text |-> text, target_type |-> target_type]]
        /\ result' = create_notification_query(user_id, target_id, text, target_type)
        /\ heap' = Objects(call'.args)
        /\ UNCHANGED table_updates

Call_get_me_query ==
    /\ Idle
    /\ call' = [fn |-> "get_me_query", args |-> <<>>]
    /\ result' = get_me_query
    /\ heap' = Objects(call'.args)
    /\ UNCHANGED table_updates

\* the caller takes the outcome; the call's argument set and result are dropped
Return ==
    /\ ~Idle
    /\ call' = [fn |-> "none", args |-> <<>>]
    /\ result' = NoResult
    /\ heap' = Objects(<<>>)
    /\ UNCHANGED table_updates

Next ==
    \/ Call_mutate_item_query
    \/ Call_mutate_subitem_query
    \/ Call_get_item_query
    \/ Call_get_item_by_id_query
    \/ Call_update_item_query
    \/ Call_move_item_to_group_query
    \/ Call_archive_item_query
    \/ Call_delete_item_query
    \/ Call_create_column
    \/ Call_get_columns_by_board_query
    \/ Call_update_multiple_column_values_query
    \/ Call_add_file_to_column_query
    \/ Call_create_update_query
    \/ Call_delete_update_query
    \/ Call_get_updates_for_item_query
    \/ Call_get_update_query
    \/ Call_get_tags_query
    \/ Call_get_board_items_query
    \/ Call_get_boards_query
    \/ Call_get_boards_by_id_query
    \/ Call_duplicate_board_query
    \/ Call_create_board_by_workspace_query
    \/ Call_get_users_query
    \/ Call_get_groups_by_board_query
    \/ Call_get_items_by_group_query
    \/ Call_create_group_query
    \/ Call_duplicate_group_query
    \/ Call_archive_group_query
    \/ Call_delete_group_query
    \/ Call_get_complexity_query
    \/ Call_get_workspaces_query
    \/ Call_create_workspace_query
    \/ Call_add_users_to_workspace_query
    \/ Call_delete_users_from_workspace_query
    \/ Call_add_teams_to_workspace_query
    \/ Call_delete_teams_from_workspace_query
    \/ Call_create_notification_query
    \/ Call_get_me_query
    \/ Return

Spec == Init /\ [][Next]_vars

(***************************************************************************)
(* Reading a document: the operation, its argument lists, the arguments.   *)
(***************************************************************************)
FirstIndex(toks, x) ==
    IF \E i \in 1..Len(toks) : toks[i] = x
    THEN CHOOSE i \in 1..Len(toks) : toks[i] = x /\ \A j \in 1..(i - 1) : toks[j] # x
    ELSE 0

\* the index of the operation name: the first field of the document's selection
OperationIndex(toks) == FirstIndex(toks, "{") + 1

Operation(toks) == IF OperationIndex(toks) \in 2..Len(toks) THEN toks[OperationIndex(toks)] ELSE ""

\* whether a parenthesised list follows the token at index i
HasArgumentList(toks, i) == i \in 1..(Len(toks) - 1) /\ toks[i + 1] = "("

\* the tokens between the parentheses that follow the token at index i
ArgumentsAt(toks, i) ==
    IF ~HasArgumentList(toks, i) THEN <<>>
    ELSE LET rest == SubSeq(toks, i + 2, Len(toks))
             close == FirstIndex(rest, ")")
         IN IF close = 0 THEN rest ELSE SubSeq(rest, 1, close - 1)

OperationArgs(toks) == ArgumentsAt(toks, OperationIndex(toks))

\* the arguments of the first field called `field`
FieldArgs(toks, field) == ArgumentsAt(toks, FirstIndex(toks, field))

\* nesting depth of position p inside an argument list
Depth(args, p) ==
    Cardinality({j \in 1..(p - 1) : args[j] \in {"[", "{"}})
    - Cardinality({j \in 1..(p - 1) : args[j] \in {"]", "}"}})

IsArgName(args, p) == p \in 1..(Len(args) - 1) /\ args[p + 1] = ":" /\ Depth(args, p) = 0

ArgNames(args) == {args[p] : p \in {q \in 1..Len(args) : IsArgName(args, q)}}

\* the argument names in the order in which they are written
RECURSIVE ArgNamesFrom(_, _)
ArgNamesFrom(args, p) ==
    IF p > Len(args) THEN <<>>
    ELSE (IF IsArgName(args, p) THEN <<args[p]>> ELSE <<>>) \o ArgNamesFrom(args, p + 1)

ArgNameSeq(args) == ArgNamesFrom(args, 1)

\* the value tokens of argument `name`: up to the next top-level comma
ArgValue(args, name) ==
    LET p == CHOOSE q \in 1..Len(args) : IsArgName(args, q) /\ args[q] = name
        ends == {e \in (p + 2)..Len(args) : args[e] = "," /\ Depth(args, e) = 0}
        stop == IF ends = {} THEN Len(args) + 1
                ELSE CHOOSE e \in ends : \A f \in ends : e <= f
    IN SubSeq(args, p + 2, stop - 1)

HasArg(args, name) == name \in ArgNames(args)

Returned == result.kind = "str"

Calling(fn) == call.fn = fn

(***************************************************************************)
(* Well-typed calls.  Python checks no types: a builder is called with     *)
(* whatever the caller passes.  A call is well typed when every parameter  *)
(* the builder needs has a value (is not None) and every typed parameter   *)
(* has a value of its type.  Parameters the code itself defaults when None *)
(* (column_values of the create builders, page, tags, the requested column *)
(* types) count as optional.                                               *)
(***************************************************************************)
\* the parameters of each builder that have no default and are not defaulted
RequiredParams ==
    ("mutate_item_query" :> {"board_id", "group_id", "item_name", "create_labels_if_missing"})
    @@ ("mutate_subitem_query" :> {"parent_item_id", "subitem_name", "create_labels_if_missing"})
    @@ ("get_item_query" :> {"board_id", "column_id", "value"})
    @@ ("get_item_by_id_query" :> {"ids"})
    @@ ("update_item_query" :> {"board_id", "item_id", "column_id", "value", "create_labels_if_missing"})
    @@ ("move_item_to_group_query" :> {"item_id", "group_id"})
    @@ ("archive_item_query" :> {"item_id"})
    @@ ("delete_item_query" :> {"item_id"})
    @@ ("create_column" :> {"board_id", "column_title"})
    @@ ("get_columns_by_board_query" :> {"board_ids"})
    @@ ("update_multiple_column_values_query" :> {"board_id", "item_id", "column_values"})
    @@ ("add_file_to_column_query" :> {"item_id", "column_id"})
    @@ ("create_update_query" :> {"item_id", "update_value"})
    @@ ("delete_update_query" :> {"item_id"})
    @@ ("get_updates_for_item_query" :> {"item", "limit"})
    @@ ("get_update_query" :> {"limit"})
    @@ ("get_tags_query" :> {})
    @@ ("get_board_items_query" :> {"board_id"})
    @@ ("get_boards_query" :> {})
    @@ ("get_boards_by_id_query" :> {"board_ids"})
    @@ ("duplicate_board_query" :> {"board_id", "duplicate_type"})
    @@ ("create_board_by_workspace_query" :> {"board_name", "board_kind"})
    @@ ("get_users_query" :> {})
    @@ ("get_groups_by_board_query" :> {"board_ids"})
    @@ ("get_items_by_group_query" :> {"board_id", "group_id"})
    @@ ("create_group_query" :> {"board_id", "group_name"})
    @@ ("duplicate_group_query" :> {"board_id", "group_id"})
    @@ ("archive_group_query" :> {"board_id", "group_id"})
    @@ ("delete_group_query" :> {"board_id", "group_id"})
    @@ ("get_complexity_query" :> {})
    @@ ("get_workspaces_query" :> {})
    @@ ("create_workspace_query" :> {"name", "kind"})
    @@ ("add_users_to_workspace_query" :> {"workspace_id", "user_ids", "kind"})
    @@ ("delete_users_from_workspace_query" :> {"workspace_id", "user_ids"})
    @@ ("add_teams_to_workspace_query" :> {"workspace_id", "team_ids"})
    @@ ("delete_teams_from_workspace_query" :> {"workspace_id", "team_ids"})
    @@ ("create_notification_query" :> {"user_id", "target_id", "text", "target_type"})
    @@ ("get_me_query" :> {})

\* the parameters declared as members of an enumeration
EnumParams == {"duplicate_type", "board_kind", "state", "order_by", "column_type"}

\* the parameters declared as booleans
BoolParams == {"create_labels_if_missing", "keep_subscribers"}

\* the parameters serialized as JSON
JsonParams == {"value", "column_values", "defaults", "update_value"}

\* well typed, the parameters in `skip` left unconstrained
WellTypedBut(skip) ==
    /\ ~Idle
    /\ \A p \in RequiredParams[call.fn] \ skip : ~IsNone(call.args[p])
    /\ \A p \in DOMAIN call.args \ skip :
          /\ p \in EnumParams => call.args[p].t \in {"enum", "none"}
          /\ p \in BoolParams => call.args[p].t \in {"bool", "none"}
          /\ p \in JsonParams => JsonSerializable(call.args[p])

WellTypedCall == WellTypedBut({})

(***************************************************************************)
(* C1.  Every builder emits the remote operation its name stands for; in   *)
(* particular delete_users_from_workspace_query emits                      *)
(* delete_users_from_workspace, and no two builders of different remote    *)
(* mutations emit the same operation name.                                 *)
(***************************************************************************)
\* the remote mutation each mutation builder is for
RemoteMutation ==
    ("mutate_item_query" :> "create_item") @@ ("mutate_subitem_query" :> "create_subitem")
    @@ ("update_item_query" :> "change_column_value")
    @@ ("move_item_to_group_query" :> "move_item_to_group")
    @@ ("archive_item_query" :> "archive_item") @@ ("delete_item_query" :> "delete_item")
    @@ ("create_column" :> "create_column")
    @@ ("update_multiple_column_values_query" :> "change_multiple_column_values")
    @@ ("add_file_to_column_query" :> "add_file_to_column")
    @@ ("create_update_query" :> "create_update") @@ ("delete_update_query" :> "delete_update")
    @@ ("duplicate_board_query" :> "duplicate_board")
    @@ ("create_board_by_workspace_query" :> "create_board")
    @@ ("create_group_query" :> "create_group") @@ ("duplicate_group_query" :> "duplicate_group")
    @@ ("archive_group_query" :> "archive_group") @@ ("delete_group_query" :> "delete_group")
    @@ ("create_workspace_query" :> "create_workspace")
    @@ ("add_users_to_workspace_query" :> "add_users_to_workspace")
    @@ ("delete_users_from_workspace_query" :> "delete_users_from_workspace")
    @@ ("add_teams_to_workspace_query" :> "add_teams_to_workspace")
    @@ ("delete_teams_from_workspace_query" :> "delete_teams_from_workspace")
    @@ ("create_notification_query" :> "create_notification")

\* C1: a returned mutation names the remote mutation of its builder, so that
\* (the table being one-to-one) no operation name is emitted by two builders
C1_OperationNames ==
    /\ \A f, g \in DOMAIN RemoteMutation : RemoteMutation[f] = RemoteMutation[g] => f = g
    /\ (WellTypedCall /\ Returned /\ call.fn \in DOMAIN RemoteMutation)
            => /\ result.toks[1] = "mutation"
               /\ Operation(result.toks) = RemoteMutation[call.fn]

(***************************************************************************)
(* C2.  Every boolean flag is emitted as the lowercase token true or       *)
(* false, never as True or False.                                          *)
(***************************************************************************)
\* the boolean flag of the builders that have one
BooleanFlag ==
    ("mutate_item_query" :> "create_labels_if_missing")
    @@ ("mutate_subitem_query" :> "create_labels_if_missing")
    @@ ("update_item_query" :> "create_labels_if_missing")
    @@ ("update_multiple_column_values_query" :> "create_labels_if_missing")
    @@ ("duplicate_board_query" :> "keep_subscribers")

\* C2: a flag given as True is emitted as true, one given as False as false
C2_BooleanFlagsLowercase ==
    (WellTypedCall /\ Returned /\ call.fn \in DOMAIN BooleanFlag
        /\ call.args[BooleanFlag[call.fn]] \in Flags)
        => LET flag == BooleanFlag[call.fn]
               args == OperationArgs(result.toks)
           IN /\ HasArg(args, flag)
              /\ ArgValue(args, flag) = (IF call.args[flag] = PyTrue THEN <<"true">> ELSE <<"false">>)

(***************************************************************************)
(* C3.  An optional argument is in the argument list if and only if its    *)
(* value is not None: falsy values (0, the empty string) are emitted, and  *)
(* None is never emitted as a literal.                                     *)
(***************************************************************************)
OptionalParams ==
    ("create_board_by_workspace_query" :> {"workspace_id"})
    @@ ("duplicate_board_query" :> {"board_name", "folder_id", "keep_subscribers", "workspace_id"})
    @@ ("get_boards_query" :> {"limit", "page", "ids", "board_kind", "state", "order_by"})

\* C3: presence in the argument list is exactly "the value is not None"
C3_OptionalIffNotNone ==
    (WellTypedCall /\ Returned /\ call.fn \in DOMAIN OptionalParams)
        => \A name \in OptionalParams[call.fn] :
              LET args == OperationArgs(result.toks)
              IN /\ HasArg(args, name) <=> ~IsNone(call.args[name])
                 /\ HasArg(args, name) => ArgValue(args, name) \notin {<<"None">>, <<"null">>}

(***************************************************************************)
(* C4.  The paginated-fetch builders mention `cursor` in the argument list *)
(* exactly when a cursor is given and `limit` exactly when a limit is      *)
(* given; get_board_items_query and get_items_by_group_query write no      *)
(* parenthesised list after items_page when there is no argument, and      *)
(* never put board_id or group_id inside it.                               *)
(***************************************************************************)
PaginatedField ==
    ("get_board_items_query" :> "items_page") @@ ("get_items_by_group_query" :> "items_page")
    @@ ("get_item_query" :> "items_page_by_column_values")

\* whether the token x occurs anywhere in the sequence
Mentions(toks, x) == \E i \in 1..Len(toks) : toks[i] = x

\* C4: cursor/limit are mentioned iff given; no empty list; excluded names stay out
C4_PaginationArguments ==
    (Returned /\ call.fn \in DOMAIN PaginatedField)
        => LET i == FirstIndex(result.toks, PaginatedField[call.fn])
               args == ArgumentsAt(result.toks, i)
               none_given == /\ IsNone(call.args.limit)
                             /\ IsNone(call.args.cursor)
                             /\ "query_params" \in DOMAIN call.args
                                    => IsNone(call.args.query_params)
           IN /\ i > 0
              /\ IF IsNone(call.args.cursor) THEN ~Mentions(args, "cursor")
                 ELSE HasArg(args, "cursor")
              /\ IF IsNone(call.args.limit) THEN ~Mentions(args, "limit")
                 ELSE HasArg(args, "limit")
              /\ call.fn # "get_item_query"
                    => /\ none_given => (~HasArgumentList(result.toks, i)
                                         /\ result.toks[i + 1] = "{")
                       /\ ~none_given => (HasArgumentList(result.toks, i) /\ args # <<>>)
                       /\ ~Mentions(args, "board_id")
                       /\ ~Mentions(args, "group_id")

\* a call with only a cursor whose items_page list holds cursor and no limit
C4_Witness ==
    /\ Calling("get_items_by_group_query") /\ WellTypedCall /\ Returned
    /\ ~IsNone(call.args.cursor) /\ IsNone(call.args.limit)
    /\ ArgNames(FieldArgs(result.toks, "items_page")) = {"cursor"}

(***************************************************************************)
(* C5.  A column-values or default-settings map that is empty or None is   *)
(* serialized as {} and a non-empty map as its compact JSON.               *)
(***************************************************************************)
MapParam ==
    ("mutate_item_query" :> "column_values") @@ ("mutate_subitem_query" :> "column_values")
    @@ ("update_multiple_column_values_query" :> "column_values")
    @@ ("create_column" :> "defaults")

StatusDoneJson == <<"{", "\"status\"", ":", "{", "\"label\"", ":", "\"Done\"", "}", "}">>

\* C5: None and the empty map both give {}; {"status": {"label": "Done"}} is verbatim
C5_MapSerialization ==
    (WellTypedBut({"column_values"}) /\ Returned /\ call.fn \in DOMAIN MapParam
        /\ (Calling("create_column") => PyTruthy(call.args.column_type)))
        => LET m == call.args[MapParam[call.fn]]
               args == OperationArgs(result.toks)
           IN /\ HasArg(args, MapParam[call.fn])
              /\ m \in {PyNone, PyDict(<<>>)} => ArgValue(args, MapParam[call.fn]) = <<"{", "}">>
              /\ m = StatusDone => ArgValue(args, MapParam[call.fn]) = StatusDoneJson

(***************************************************************************)
(* C6.  An enumerated argument is emitted as the underlying value of the   *)
(* member, never as the composite name Class.MEMBER.                       *)
(***************************************************************************)
EnumArgs ==
    ("get_boards_query" :> {"board_kind", "state", "order_by"})
    @@ ("create_board_by_workspace_query" :> {"board_kind"})
    @@ ("duplicate_board_query" :> {"duplicate_type"})
    @@ ("create_column" :> {"column_type"})
    @@ ("create_workspace_query" :> {"kind"})
    @@ ("add_users_to_workspace_query" :> {"kind"})

\* C6: an argument given as an enum member is written as the member's value
C6_EnumValueTokens ==
    (WellTypedCall /\ Returned /\ call.fn \in DOMAIN EnumArgs)
        => \A name \in EnumArgs[call.fn] :
              IsEnum(call.args[name])
                  => LET args == OperationArgs(result.toks)
                     IN /\ HasArg(args, name)
                        /\ ArgValue(args, name) = <<call.args[name].s>>
                        /\ ~Mentions(args, call.args[name].c \o "." \o call.args[name].m)

(***************************************************************************)
(* C7.  get_item_by_id_query: the type-specific part of the column_values  *)
(* selection is the concatenation, in the caller's order, of the table's   *)
(* fragments of the requested types that have one; types without an entry  *)
(* (TEXT, FORMULA, PROGRESS, TEAM) add nothing and raise nothing; an empty *)
(* or absent request gives the empty text.                                 *)
(***************************************************************************)
\* what follows `id text value type` inside column_values { ... }
TypeSpecificPart(toks) ==
    SubSeq(toks, FirstIndex(toks, "column_values") + 6, Len(toks) - 3)

RequestedTags == IF IsNone(call.args.specific_column_values) THEN <<>>
                 ELSE call.args.specific_column_values.items

NoSpecificFields == {"TEXT", "FORMULA", "PROGRESS", "TEAM"}

DateFragment == <<"...", "on", "DateValue", "{", "time", "date", "updated_at", "icon", "}">>

StatusFragment ==
    <<"...", "on", "StatusValue", "{", "index", "is_done", "label", "label_style", "{",
      "border", "color", "}", "update_id", "updated_at", "}">>

\* C7: the part is the requested fragments in order, nothing for types without one
C7_FragmentSelection ==
    Calling("get_item_by_id_query")
        => LET part == TypeSpecificPart(result.toks)
               tags == RequestedTags
           IN /\ Returned
              /\ part = Concat([i \in 1..Len(tags) |->
                            IF tags[i].m \in DOMAIN COLUMN_VALUES_SPECIFIC
                            THEN COLUMN_VALUES_SPECIFIC[tags[i].m] ELSE <<>>])
              /\ (\A i \in 1..Len(tags) : tags[i].m \in NoSpecificFields) => part = <<>>
              /\ (Len(tags) = 2 /\ tags[1].m = "DATE" /\ tags[2].m = "STATUS")
                    => part = DateFragment \o StatusFragment
              /\ (Len(tags) = 2 /\ tags[1].m = "STATUS" /\ tags[2].m = "TEXT")
                    => part = StatusFragment

\* DATE and STATUS requested, in this order, and both fragments selected
C7_Witness ==
    /\ Calling("get_item_by_id_query") /\ WellTypedCall /\ Returned
    /\ Len(RequestedTags) = 2
    /\ RequestedTags[1].m = "DATE" /\ RequestedTags[2].m = "STATUS"
    /\ TypeSpecificPart(result.toks) = DateFragment \o StatusFragment

(***************************************************************************)
(* C8.  mutate_item_query returns a create_item mutation whose arguments   *)
(* are, in this order, board_id as a bare number, group_id and item_name   *)
(* as double-quoted strings, column_values as the compact JSON of the map  *)
(* and create_labels_if_missing as true/false, and which selects id.       *)
(***************************************************************************)
\* the JSON object form: opens with { and closes with }, not a quoted string
IsObjectForm(v) == Len(v) >= 2 /\ v[1] = "{" /\ v[Len(v)] = "}"

\* C8: for every well-typed call, the arguments, their order and their forms
C8_CreateItemMutation ==
    (Calling("mutate_item_query") /\ WellTypedCall)
        => LET toks == result.toks
               args == OperationArgs(toks)
               a == call.args
               close == FirstIndex(toks, ")")
           IN /\ Returned
              /\ toks[1] = "mutation"
              /\ Operation(toks) = "create_item"
              /\ ArgNameSeq(args) = <<"board_id", "group_id", "item_name", "column_values",
                                      "create_labels_if_missing">>
              /\ ArgValue(args, "board_id") = <<ToString(a.board_id.n)>>
              /\ ArgValue(args, "group_id") = <<"\"" \o a.group_id.s \o "\"">>
              /\ ArgValue(args, "item_name") = <<"\"" \o a.item_name.s \o "\"">>
              /\ IsObjectForm(ArgValue(args, "column_values"))
              /\ a.column_values = StatusDone
                    => ArgValue(args, "column_values") = StatusDoneJson
              /\ ArgValue(args, "create_labels_if_missing")
                    = (IF a.create_labels_if_missing = PyTrue THEN <<"true">> ELSE <<"false">>)
              /\ SubSeq(toks, close + 1, Len(toks)) = <<"{", "id", "}", "}">>

\* the end-to-end example of the specification and its document
C8_Witness ==
    /\ Calling("mutate_item_query")
    /\ call.args = [board_id |-> PyInt(1), group_id |-> PyString("topics"),
                    item_name |-> PyString("Task"), column_values |-> StatusDone,
                    create_labels_if_missing |-> PyTrue]
    /\ result = Returns(<<"mutation", "{", "create_item", "(", "board_id", ":", "1", ",",
                          "group_id", ":", "\"topics\"", ",", "item_name", ":", "\"Task\"", ",",
                          "column_values", ":", "{", "\"status\"", ":", "{", "\"label\"", ":",
                          "\"Done\"", "}", "}", ",", "create_labels_if_missing", ":", "true",
                          ")", "{", "id", "}", "}">>)

(***************************************************************************)
(* C9.  A call with a required argument missing (None) or of the wrong     *)
(* type raises before any string is built; every call returns a complete   *)
(* string or raises.                                                       *)
(***************************************************************************)
\* C9: an ill-typed call raises, and no call ends without a string or an error
C9_FailFast ==
    ~Idle => /\ result.kind \in {"str", "raise"}
             /\ ~WellTypedCall => result.kind = "raise"

(***************************************************************************)
(* C10.  For well-typed input the returned document is syntactically       *)
(* valid: braces, brackets and parentheses are balanced and properly       *)
(* nested, no parenthesised argument list is empty, and every argument has *)
(* the form name: value.  As in the query language, a comma is an          *)
(* insignificant separator: it may follow the last argument.               *)
(***************************************************************************)
Punctuation == {"(", ")", "{", "}", "[", "]", ":", ","}

Opening == ("(" :> ")") @@ ("{" :> "}") @@ ("[" :> "]")

RECURSIVE WithoutCommas(_)
WithoutCommas(toks) ==
    IF toks = <<>> THEN <<>>
    ELSE (IF Head(toks) = "," THEN <<>> ELSE <<Head(toks)>>) \o WithoutCommas(Tail(toks))

\* brackets of all three kinds close in the reverse order of their opening
RECURSIVE Nested(_, _, _)
Nested(toks, i, open) ==
    IF i > Len(toks) THEN open = <<>>
    ELSE IF toks[i] \in DOMAIN Opening THEN Nested(toks, i + 1, <<Opening[toks[i]]>> \o open)
    ELSE IF toks[i] \in {")", "}", "]"}
         THEN open # <<>> /\ Head(open) = toks[i] /\ Nested(toks, i + 1, Tail(open))
    ELSE Nested(toks, i + 1, open)

Balanced(toks) == Nested(toks, 1, <<>>)

TokenAt(t, i) == IF i \in 1..Len(t) THEN t[i] ELSE ""

IsAtomAt(t, i) == i \in 1..Len(t) /\ t[i] \notin Punctuation

\* The parsers take the tokens and a position and give the position after the
\* construct, or 0 when the tokens at the position are not the construct.
RECURSIVE ParseValue(_, _), ParseListRest(_, _), ParseObjectRest(_, _)
ParseValue(t, i) ==
    IF IsAtomAt(t, i) THEN i + 1
    ELSE IF TokenAt(t, i) = "[" THEN ParseListRest(t, i + 1)
    ELSE IF TokenAt(t, i) = "{" THEN ParseObjectRest(t, i + 1)
    ELSE 0

ParseListRest(t, i) ==
    IF TokenAt(t, i) = "]" THEN i + 1
    ELSE LET j == ParseValue(t, i) IN IF j = 0 THEN 0 ELSE ParseListRest(t, j)

ParseObjectRest(t, i) ==
    IF TokenAt(t, i) = "}" THEN i + 1
    ELSE IF IsAtomAt(t, i) /\ TokenAt(t, i + 1) = ":"
         THEN LET j == ParseValue(t, i + 2) IN IF j = 0 THEN 0 ELSE ParseObjectRest(t, j)
    ELSE 0

\* name: value, at least once, up to the closing parenthesis; n counts the arguments
RECURSIVE ParseArgumentsRest(_, _, _)
ParseArgumentsRest(t, i, n) ==
    IF TokenAt(t, i) = ")" THEN (IF n > 0 THEN i + 1 ELSE 0)
    ELSE IF IsAtomAt(t, i) /\ TokenAt(t, i + 1) = ":"
         THEN LET j == ParseValue(t, i + 2)
              IN IF j = 0 THEN 0 ELSE ParseArgumentsRest(t, j, n + 1)
    ELSE 0

ParseOptionalArguments(t, i) ==
    IF TokenAt(t, i) = "(" THEN ParseArgumentsRest(t, i + 1, 0) ELSE i

\* a field with optional arguments and selection, or an inline fragment
RECURSIVE ParseSelection(_, _), ParseSelectionSetRest(_, _, _)
ParseSelection(t, i) ==
    IF TokenAt(t, i) = "..."
    THEN (IF TokenAt(t, i + 1) = "on" /\ IsAtomAt(t, i + 2) /\ TokenAt(t, i + 3) = "{"
          THEN ParseSelectionSetRest(t, i + 4, 0) ELSE 0)
    ELSE IF IsAtomAt(t, i)
         THEN LET j == ParseOptionalArguments(t, i + 1)
              IN IF j = 0 THEN 0
                 ELSE IF TokenAt(t, j) = "{" THEN ParseSelectionSetRest(t, j + 1, 0)
                 ELSE j
    ELSE 0

ParseSelectionSetRest(t, i, n) ==
    IF TokenAt(t, i) = "}" THEN (IF n > 0 THEN i + 1 ELSE 0)
    ELSE LET j == ParseSelection(t, i) IN IF j = 0 THEN 0 ELSE ParseSelectionSetRest(t, j, n + 1)

\* [query | mutation] [variable definitions] selection set, and nothing after it
ParsesAsDocument(toks) ==
    LET t == WithoutCommas(toks)
        start == IF TokenAt(t, 1) \in {"query", "mutation"} THEN 2 ELSE 1
        body == ParseOptionalArguments(t, start)
    IN /\ body # 0
       /\ TokenAt(t, body) = "{"
       /\ ParseSelectionSetRest(t, body + 1, 0) = Len(t) + 1

NoEmptyArgumentList(toks) ==
    LET t == WithoutCommas(toks)
    IN \A i \in 1..(Len(t) - 1) : ~(t[i] = "(" /\ t[i + 1] = ")")

ValidDocument(toks) == Balanced(toks) /\ NoEmptyArgumentList(toks) /\ ParsesAsDocument(toks)

\* C10: what a well-typed call returns is a valid document
C10_ValidDocument == (WellTypedCall /\ Returned) => ValidDocument(result.toks)

\* create_board_by_workspace_query without a workspace_id: a valid document
C10_Witness ==
    /\ Calling("create_board_by_workspace_query") /\ WellTypedCall /\ Returned
    /\ IsNone(call.args.workspace_id)
    /\ ~HasArg(OperationArgs(result.toks), "workspace_id")
    /\ ValidDocument(result.toks)


(***************************************************************************)
(* C11.  Frame.  No builder writes to the module-level table or to an      *)
(* object of its caller, so whatever calls were made before, the table is  *)
(* the loaded literal, the caller's lists and dicts are as they were       *)
(* passed, and the same call made again returns the same outcome.          *)
(***************************************************************************)
\* what the builder fn returns for the arguments args in the current state
Outcome(fn, args) ==
    CASE fn = "mutate_item_query" ->
            mutate_item_query(args.board_id, args.group_id, args.item_name, args.column_values, args.create_labels_if_missing)
      [] fn = "mutate_subitem_query" ->
            mutate_subitem_query(args.parent_item_id, args.subitem_name, args.column_values, args.create_labels_if_missing)
      [] fn = "get_item_query" ->
            get_item_query(args.board_id, args.column_id, args.value, args.limit, args.cursor)
      [] fn = "get_item_by_id_query" ->
            get_item_by_id_query(args.ids, args.specific_column_values)
      [] fn = "update_item_query" ->
            update_item_query(args.board_id, args.item_id, args.column_id, args.value, args.create_labels_if_missing)
      [] fn = "move_item_to_group_query" ->
            move_item_to_group_query(args.item_id, args.group_id)
      [] fn = "archive_item_query" ->
            archive_item_query(args.item_id)
      [] fn = "delete_item_query" ->
            delete_item_query(args.item_id)
      [] fn = "create_column" ->
            create_column(args.board_id, args.column_title, args.column_type, args.defaults, args.description)
      [] fn = "get_columns_by_board_query" ->
            get_columns_by_board_query(args.board_ids)
      [] fn = "update_multiple_column_values_query" ->
            update_multiple_column_values_query(args.board_id, args.item_id, args.column_values, args.create_labels_if_missing)
      [] fn = "add_file_to_column_query" ->
            add_file_to_column_query(args.item_id, args.column_id)
      [] fn = "create_update_query" ->
            create_update_query(args.item_id, args.update_value)
      [] fn = "delete_update_query" ->
            delete_update_query(args.item_id)
      [] fn = "get_updates_for_item_query" ->
            get_updates_for_item_query(args.item, args.limit)
      [] fn = "get_update_query" ->
            get_update_query(args.limit, args.page)
      [] fn = "get_tags_query" ->
            get_tags_query(args.tags)
      [] fn = "get_board_items_query" ->
            get_board_items_query(args.board_id, args.query_params, args.limit, args.cursor)
      [] fn = "get_boards_query" ->
            get_boards_query(args.limit, args.page, args.ids, args.board_kind, args.state, args.order_by)
      [] fn = "get_boards_by_id_query" ->
            get_boards_by_id_query(args.board_ids)
      [] fn = "duplicate_board_query" ->
            duplicate_board_query(args.board_id, args.duplicate_type, args.board_name, args.folder_id, args.keep_subscribers, args.workspace_id)
      [] fn = "create_board_by_workspace_query" ->
            create_board_by_workspace_query(args.board_name, args.board_kind, args.workspace_id)
      [] fn = "get_users_query" ->
            get_users_query(args.kwargs)
      [] fn = "get_groups_by_board_query" ->
            get_groups_by_board_query(args.board_ids)
      [] fn = "get_items_by_group_query" ->
            get_items_by_group_query(args.board_id, args.group_id, args.limit, args.cursor)
      [] fn = "create_group_query" ->
            create_group_query(args.board_id, args.group_name)
      [] fn = "duplicate_group_query" ->
            duplicate_group_query(args.board_id, args.group_id)
      [] fn = "archive_group_query" ->
            archive_group_query(args.board_id, args.group_id)
      [] fn = "delete_group_query" ->
            delete_group_query(args.board_id, args.group_id)
      [] fn = "get_complexity_query" ->
            get_complexity_query
      [] fn = "get_workspaces_query" ->
            get_workspaces_query
      [] fn = "create_workspace_query" ->
            create_workspace_query(args.name, args.kind, args.description)
      [] fn = "add_users_to_workspace_query" ->
            add_users_to_workspace_query(args.workspace_id, args.user_ids, args.kind)
      [] fn = "delete_users_from_workspace_query" ->
            delete_users_from_workspace_query(args.workspace_id, args.user_ids)
      [] fn = "add_teams_to_workspace_query" ->
            add_teams_to_workspace_query(args.workspace_id, args.team_ids)
      [] fn = "delete_teams_from_workspace_query" ->
            delete_teams_from_workspace_query(args.workspace_id, args.team_ids)
      [] fn = "create_notification_query" ->
            create_notification_query(args.user_id, args.target_id, args.text, args.target_type)
      [] fn = "get_me_query" ->
            get_me_query

\* the list and dict objects the call in progress was given
PassedObjects ==
    IF Calling("get_users_query") THEN Objects(Keywords(call.args.kwargs))
    ELSE Objects(call.args)

ItemsPageArgs == FieldArgs(result.toks, "items_page_by_column_values")

\* one entry pairing str(column_id) with the one-element list [str(value)]
ColumnsFilter(column_id, value) ==
    <<"[", "{", "\"column_id\"", ":", "\"" \o PyStr(column_id) \o "\"", ",",
      "\"column_values\"", ":", "[", "\"" \o PyStr(value) \o "\"", "]", "}", "]">>

\* C12: in what a well-typed get_item_query call returns, the argument list
\* of items_page_by_column_values contains board_id, contains neither
\* column_id nor value, contains the columns filter (str(column_id) paired
\* with [str(value)]) if and only if no cursor was supplied (cursor is None),
\* and contains cursor whenever one was supplied
C12_ColumnsIffNoCursor ==
    (Calling("get_item_query") /\ WellTypedCall /\ Returned) =>
        /\ HasArg(ItemsPageArgs, "board_id")
        /\ ~HasArg(ItemsPageArgs, "column_id")
        /\ ~HasArg(ItemsPageArgs, "value")
        /\ HasArg(ItemsPageArgs, "columns") <=> IsNone(call.args.cursor)
        /\ ~IsNone(call.args.cursor) => HasArg(ItemsPageArgs, "cursor")
        /\ HasArg(ItemsPageArgs, "columns") =>
              ArgValue(ItemsPageArgs, "columns")
                  = ColumnsFilter(call.args.column_id, call.args.value)

(***************************************************************************)
(* C13.  create_column: description, column_type and defaults are emitted  *)
(* together, when a column_type is supplied, or not at all.                *)
(***************************************************************************)
CreateColumnArgs == OperationArgs(result.toks)

\* the defaults map is absent or empty
NoDefaults == IsNone(call.args.defaults) \/ call.args.defaults.items = <<>>

\* C13: what a well-typed create_column call returns has, when a column_type
\* is supplied, the arguments board_id, title, description, column_type and
\* defaults (description the quoted text, empty when not given; column_type
\* the member's value; defaults {} when absent), and, when column_type is
\* absent, the arguments board_id and title only, whatever description and
\* defaults the caller supplied
C13_ColumnTypeAllOrNothing ==
    (Calling("create_column") /\ WellTypedCall /\ Returned) =>
        IF IsNone(call.args.column_type)
        THEN ArgNameSeq(CreateColumnArgs) = <<"board_id", "title">>
        ELSE /\ ArgNameSeq(CreateColumnArgs)
                    = <<"board_id", "title", "description", "column_type", "defaults">>
             /\ ArgValue(CreateColumnArgs, "description")
                    = <<"\"" \o call.args.description.s \o "\"">>
             /\ ArgValue(CreateColumnArgs, "column_type") = <<call.args.column_type.s>>
             /\ NoDefaults => ArgValue(CreateColumnArgs, "defaults") = <<"{", "}">>
             /\ ~NoDefaults => ArgValue(CreateColumnArgs, "defaults")
                                  = JsonDumps(call.args.defaults)

\* no column_type, but a description and a defaults map: both are dropped
C13_Witness ==
    /\ Calling("create_column") /\ WellTypedCall /\ Returned
    /\ IsNone(call.args.column_type)
    /\ call.args.description = PyString("Task")
    /\ call.args.defaults = StatusDone
    /\ ArgNameSeq(CreateColumnArgs) = <<"board_id", "title">>
    /\ ~HasArg(CreateColumnArgs, "description") /\ ~HasArg(CreateColumnArgs, "defaults")

====
